---- MODULE Spec2Model ----
(***************************************************************************)
(* Model of magpie/api.py: the three entry points extract, test and train  *)
(* that sequence candidate generation, feature extraction and the          *)
(* LearningModel.  One behaviour of the model is one call of one entry     *)
(* point; pc is the position inside that call.                             *)
(***************************************************************************)
EXTENDS Integers, Sequences, FiniteSets, TLC

(* ------------------------------ bounds --------------------------------- *)
\* largest number of documents in the directory handed to test / train
MaxDocs == 2
\* largest number of candidates generate_keyword_candidates yields per document
MaxCands == 2

(* ------------------------------ domains -------------------------------- *)
\* canonical forms known to the ontology
OntologyForms == {"a", "b"}
\* canonical forms whose surface form occurs in the modelled documents
GenForms == {"a"}
\* labels that can appear in a ground-truth answer file
AnswerLabels == {"a", "b"}

\* a KeywordCandidate: canonical form + the span it was found at
\* (pos = 0 is the degenerate span of a candidate injected from the ground truth)
Candidate(f, p) == [cf |-> f, pos |-> p]
NoCandidate == [cf |-> "", pos |-> -1]

get_canonical_form(kw) == kw.cf

\* the values list(generate_keyword_candidates(doc, ontology)) can take:
\* one candidate per matching span, in scan order
generate_keyword_candidates ==
  UNION { { [k \in 1..n |-> Candidate(g[k], k)] : g \in [1..n -> GenForms] }
          : n \in 0..MaxCands }

\* the values get_answers_for_doc(filename, dir) can take
get_answers_for_doc == SUBSET AnswerLabels

remove_unguessable_answers(answers, ontology) == answers \cap ontology

(* ------------------------------ sequences ------------------------------ *)
RECURSIVE SeqToSet(_)
SeqToSet(s) == IF s = <<>> THEN {} ELSE {Head(s)} \cup SeqToSet(Tail(s))

RECURSIVE Flatten(_)
Flatten(ss) == IF ss = <<>> THEN <<>> ELSE Head(ss) \o Flatten(Tail(ss))

Min(a, b) == IF a <= b THEN a ELSE b

\* the orders in which a Python set can be iterated
Orders(S) == { s \in [1..Cardinality(S) -> S] : \A x \in S : \E k \in DOMAIN s : s[k] = x }

(* ---------------------------- feature matrix --------------------------- *)
\* column groups of the feature matrix
KeywordColumns == "keyword"
DocumentColumns == "document"
Schema == <<KeywordColumns, DocumentColumns>>
PipelineSteps == <<"preallocate", "keyword_features", "document_features", "rebuild">>

EmptyRow == [kw |-> NoCandidate, doc |-> -1, dfeat |-> -1]
NoIdf == [origin |-> "none", docs |-> {}]
NoMatrix == [rows |-> <<>>, cols |-> <<>>, hist |-> <<>>, idf |-> NoIdf, scaled |-> FALSE]

\* preallocate_feature_matrix(n): n zero rows, keyword columns
preallocate_feature_matrix(n) ==
  [rows |-> [k \in 1..n |-> EmptyRow], cols |-> <<KeywordColumns>>,
   hist |-> <<"preallocate">>, idf |-> NoIdf, scaled |-> FALSE]

\* extract_keyword_features(kw_candidates, X, inv_index, model): row k gets the
\* features of candidate k in the indexed document, idf taken from the model
extract_keyword_features(cands, X, inv_index, m) ==
  [X EXCEPT !.rows = [k \in 1..Len(X.rows) |->
                        IF k <= Len(cands)
                        THEN [X.rows[k] EXCEPT !.kw = cands[k], !.doc = inv_index]
                        ELSE X.rows[k]],
            !.hist = Append(X.hist, "keyword_features"),
            !.idf = m.idf]

\* extract_document_features(inv_index, X): document columns broadcast to all rows
extract_document_features(inv_index, X) ==
  [X EXCEPT !.rows = [k \in 1..Len(X.rows) |-> [X.rows[k] EXCEPT !.dfeat = inv_index]],
            !.cols = IF DocumentColumns \in SeqToSet(X.cols) THEN X.cols
                     ELSE Append(X.cols, DocumentColumns),
            !.hist = Append(X.hist, "document_features")]

\* rebuild_feature_matrix(X): same rows and columns, canonical layout
rebuild_feature_matrix(X) == [X EXCEPT !.hist = Append(X.hist, "rebuild")]

\* pd.concat(list of matrices), list not empty
pd_concat(ms) ==
  [rows |-> Flatten([k \in 1..Len(ms) |-> ms[k].rows]),
   cols |-> ms[1].cols,
   hist |-> <<"concat">>,
   idf  |-> ms[1].idf,
   scaled |-> FALSE]

(* ------------------------------- model --------------------------------- *)
\* what the classifier looks at in a row
RowKey(r) == r.kw
ClassifierKeys == { Candidate(f, p) : f \in GenForms, p \in 1..MaxCands }

\* LearningModel(docs=docs): global statistics of the whole collection, nothing fit
LearningModel(docs) ==
  [idf |-> [origin |-> "constructed", docs |-> docs],
   scaler |-> 0, clf |-> 0, positives |-> {}]

NoModel == [idf |-> NoIdf, scaler |-> 0, clf |-> 0, positives |-> {}]

\* the models a finished training run can have left on disk
PersistedModels ==
  { [idf |-> [origin |-> "persisted", docs |-> {}],
     scaler |-> 1, clf |-> 1, positives |-> P] : P \in SUBSET ClassifierKeys }

\* model.fit_and_scale(X): new scaling parameters, scaled copy of X
fit_and_scale_model(m, X) == [m EXCEPT !.scaler = m.scaler + 1]
fit_and_scale_result(m, X) == [X EXCEPT !.scaled = TRUE]

\* model.fit_classifier(X, y): the classifier learns the rows labelled 1
fit_classifier(m, X, labels) ==
  [m EXCEPT !.clf = m.clf + 1,
            !.positives = { RowKey(X.rows[k]) : k \in { j \in 1..Min(Len(X.rows), Len(labels)) : labels[j] = 1 } }]

\* model.scale_and_predict(X): one 0/1 prediction per row, model untouched
scale_and_predict(m, X) ==
  [k \in 1..Len(X.rows) |-> IF RowKey(X.rows[k]) \in m.positives THEN 1 ELSE 0]

(* ------------------------------- state --------------------------------- *)
VARIABLES
  mode,             \* entry point that was called
  verbose,          \* its verbose argument
  nDocs,            \* documents in the directory (extract: the one file)
  pc,               \* position in the entry point
  i,                \* documents the loop has finished
  disk,             \* the model file under model_path
  model,            \* local variable model
  kw_candidates,    \* local variable kw_candidates
  doc_answers,      \* train: doc_answers of the current document
  answers,          \* test: dict doc_id -> answers; train/extract: what was read, by doc_id
  X,                \* local variable X
  feature_matrices, \* list of per-document matrices
  kw_vector,        \* test: list of (doc_id, candidate)
  output_vectors,   \* train: list of labels
  y_predicted,      \* extract, test: the prediction vector
  y,                \* train: the label vector; extract (verbose): ground-truth bits
  kw_predicted,     \* extract: list of predicted candidates
  metrics,          \* test: what evaluate_results returned
  result,           \* the value returned
  raised,           \* the exception that ended the call, "" if none
  calls,            \* history: operations invoked so far, in order
  fed               \* history: arguments of the model operations invoked

vars == <<mode, verbose, nDocs, pc, i, disk, model, kw_candidates, doc_answers,
          answers, X, feature_matrices, kw_vector, output_vectors, y_predicted, y,
          kw_predicted, metrics, result, raised, calls, fed>>

Modes == {"extract", "test", "train"}
NoResult == [kind |-> "none"]
NoFed == [load_from_disk |-> <<>>, fit_and_scale |-> <<>>, fit_classifier |-> <<>>, scale_and_predict |-> <<>>,
          extract_keyword_features |-> <<>>]

Init ==
  /\ mode \in Modes
  /\ verbose \in BOOLEAN
  /\ nDocs \in IF mode = "extract" THEN {1} ELSE 0..MaxDocs
  /\ pc = "start"
  /\ i = 0
  /\ disk \in IF mode = "train" THEN {NoModel} ELSE PersistedModels
  /\ model = NoModel
  /\ kw_candidates = <<>>
  /\ doc_answers = {}
  /\ answers = <<>>
  /\ X = NoMatrix
  /\ feature_matrices = <<>>
  /\ kw_vector = <<>>
  /\ output_vectors = <<>>
  /\ y_predicted = <<>>
  /\ y = <<>>
  /\ kw_predicted = <<>>
  /\ metrics = NoResult
  /\ result = NoResult
  /\ raised = ""
  /\ calls = <<>>
  /\ fed = NoFed

Log(op) == calls' = Append(calls, op)
Feed(op, arg) == fed' = [fed EXCEPT ![op] = Append(@, arg)]

\* answers[doc_id] = a
Put(d, id, a) == [k \in DOMAIN d \cup {id} |-> IF k = id THEN a ELSE d[k]]

(* ------------------------------ extract -------------------------------- *)
\* Document(0, path_to_file)
ExtractDocId == 0

\* lines 44-49
ExtractLoad ==
  /\ mode = "extract" /\ pc = "start"
  /\ model' = disk
  /\ Log("load_from_disk")
  /\ Feed("load_from_disk", disk)
  /\ pc' = "extract_candidates"
  /\ UNCHANGED <<metrics, mode, verbose, nDocs, i, disk, kw_candidates, doc_answers, answers, X,
                 feature_matrices, kw_vector, output_vectors, y_predicted, y,
                 kw_predicted, result, raised>>

\* line 52
ExtractCandidates ==
  /\ mode = "extract" /\ pc = "extract_candidates"
  /\ \E c \in generate_keyword_candidates : kw_candidates' = c
  /\ pc' = "extract_preallocate"
  /\ UNCHANGED <<metrics, mode, verbose, nDocs, i, disk, model, doc_answers, answers, X,
                 feature_matrices, kw_vector, output_vectors, y_predicted, y,
                 kw_predicted, result, raised, calls, fed>>

\* variant of ExtractPreallocate: at least one row is allocated
ExtractPreallocateAtLeastOne ==
  /\ mode = "extract" /\ pc = "extract_preallocate"
  /\ X' = preallocate_feature_matrix(IF kw_candidates = <<>> THEN 1 ELSE Len(kw_candidates))
  /\ pc' = "extract_keyword_features"
  /\ UNCHANGED <<metrics, mode, verbose, nDocs, i, disk, model, kw_candidates, doc_answers,
                 answers, feature_matrices, kw_vector, output_vectors, y_predicted, y,
                 kw_predicted, result, raised, calls, fed>>

\* line 54
ExtractPreallocate ==
  /\ mode = "extract" /\ pc = "extract_preallocate"
  /\ X' = preallocate_feature_matrix(Len(kw_candidates))
  /\ pc' = "extract_keyword_features"
  /\ UNCHANGED <<metrics, mode, verbose, nDocs, i, disk, model, kw_candidates, doc_answers,
                 answers, feature_matrices, kw_vector, output_vectors, y_predicted, y,
                 kw_predicted, result, raised, calls, fed>>

\* lines 56-61
ExtractKeywordFeatures ==
  /\ mode = "extract" /\ pc = "extract_keyword_features"
  /\ X' = extract_keyword_features(kw_candidates, X, ExtractDocId, model)
  /\ Log("extract_keyword_features")
  /\ Feed("extract_keyword_features", model)
  /\ pc' = "extract_document_features"
  /\ UNCHANGED <<metrics, mode, verbose, nDocs, i, disk, model, kw_candidates, doc_answers,
                 answers, feature_matrices, kw_vector, output_vectors, y_predicted, y,
                 kw_predicted, result, raised>>

\* line 64
ExtractDocumentFeatures ==
  /\ mode = "extract" /\ pc = "extract_document_features"
  /\ X' = extract_document_features(ExtractDocId, X)
  /\ pc' = "extract_rebuild"
  /\ UNCHANGED <<metrics, mode, verbose, nDocs, i, disk, model, kw_candidates, doc_answers,
                 answers, feature_matrices, kw_vector, output_vectors, y_predicted, y,
                 kw_predicted, result, raised, calls, fed>>

\* line 66
ExtractRebuild ==
  /\ mode = "extract" /\ pc = "extract_rebuild"
  /\ X' = rebuild_feature_matrix(X)
  /\ pc' = "extract_predict"
  /\ UNCHANGED <<metrics, mode, verbose, nDocs, i, disk, model, kw_candidates, doc_answers,
                 answers, feature_matrices, kw_vector, output_vectors, y_predicted, y,
                 kw_predicted, result, raised, calls, fed>>

\* line 69
ExtractPredict ==
  /\ mode = "extract" /\ pc = "extract_predict"
  /\ y_predicted' = scale_and_predict(model, X)
  /\ Log("scale_and_predict")
  /\ Feed("scale_and_predict", X)
  /\ pc' = "extract_collect"
  /\ UNCHANGED <<metrics, mode, verbose, nDocs, i, disk, model, kw_candidates, doc_answers,
                 answers, X, feature_matrices, kw_vector, output_vectors, y,
                 kw_predicted, result, raised>>

\* variant of ZipSelect: the bit is not tested, every candidate is kept
ZipSelectAll(bits, kws) == SubSeq(kws, 1, Min(Len(bits), Len(kws)))

\* lines 71-74: for bit, kw in zip(y_predicted, kw_candidates): if bit == 1: append
RECURSIVE ZipSelect(_, _)
ZipSelect(bits, kws) ==
  IF bits = <<>> \/ kws = <<>> THEN <<>>
  ELSE (IF Head(bits) = 1 THEN <<Head(kws)>> ELSE <<>>) \o ZipSelect(Tail(bits), Tail(kws))

ExtractCollect ==
  /\ mode = "extract" /\ pc = "extract_collect"
  /\ kw_predicted' = ZipSelect(y_predicted, kw_candidates)
  /\ pc' = IF verbose THEN "extract_verbose" ELSE "extract_return"
  /\ UNCHANGED <<metrics, mode, verbose, nDocs, i, disk, model, kw_candidates, doc_answers,
                 answers, X, feature_matrices, kw_vector, output_vectors, y_predicted, y,
                 result, raised, calls, fed>>

\* lines 77-108: the diagnostics; X gets three columns and is cut to the printed ones
ExtractVerbose ==
  /\ mode = "extract" /\ pc = "extract_verbose"
  /\ \E a \in get_answers_for_doc :
       LET kept == remove_unguessable_answers(a, OntologyForms) IN
       /\ answers' = Put(answers, ExtractDocId, kept)
       /\ y' = [k \in 1..Len(kw_candidates) |->
                  IF get_canonical_form(kw_candidates[k]) \in kept THEN 1 ELSE 0]
  /\ X' = [X EXCEPT !.cols = <<"name", "predicted", "ground truth", KeywordColumns>>]
  /\ pc' = "extract_return"
  /\ UNCHANGED <<metrics, mode, verbose, nDocs, i, disk, model, kw_candidates, doc_answers,
                 feature_matrices, kw_vector, output_vectors, y_predicted,
                 kw_predicted, result, raised, calls, fed>>

\* line 110
ExtractReturn ==
  /\ mode = "extract" /\ pc = "extract_return"
  /\ result' = [kind |-> "keywords",
                value |-> { get_canonical_form(kw_predicted[k]) : k \in DOMAIN kw_predicted }]
  /\ pc' = "done"
  /\ UNCHANGED <<metrics, mode, verbose, nDocs, i, disk, model, kw_candidates, doc_answers,
                 answers, X, feature_matrices, kw_vector, output_vectors, y_predicted, y,
                 kw_predicted, raised, calls, fed>>

(* -------------------------------- test ---------------------------------- *)
\* the document the loop is working on
Doc == i + 1

\* a ratio; a zero denominator stands for the value the code reports as 0
Ratio(n, d) == [num |-> n, den |-> d]
IsZero(r) == r.num = 0
NaN == Ratio(0, 0)

\* the canonical forms predicted for document d
PredictedFor(d, bits, kws) ==
  { get_canonical_form(kws[k][2]) :
      k \in { j \in 1..Min(Len(bits), Len(kws)) : kws[j][1] = d /\ bits[j] = 1 } }

RECURSIVE SumOver(_, _, _, _, _)
SumOver(ds, bits, kws, gt, what) ==
  IF ds = {} THEN 0
  ELSE LET d == CHOOSE e \in ds : TRUE
           P == PredictedFor(d, bits, kws)
           A == gt[d]
           n == CASE what = "tp" -> Cardinality(P \cap A)
                  [] what = "fp" -> Cardinality(P \ A)
                  [] what = "fn" -> Cardinality(A \ P)
       IN n + SumOver(ds \ {d}, bits, kws, gt, what)

\* rows whose prediction agrees with the ground truth
Agreeing(bits, kws, gt) ==
  { k \in 1..Min(Len(bits), Len(kws)) :
      (bits[k] = 1) <=> (get_canonical_form(kws[k][2]) \in gt[kws[k][1]]) }

\* evaluate_results(y_predicted, kw_vector, answers) -> precision, recall, accuracy
evaluate_results(bits, kws, gt) ==
  LET tp == SumOver(DOMAIN gt, bits, kws, gt, "tp")
      fp == SumOver(DOMAIN gt, bits, kws, gt, "fp")
      fn == SumOver(DOMAIN gt, bits, kws, gt, "fn")
  IN [kind |-> "metrics",
      precision |-> Ratio(tp, tp + fp),
      recall |-> Ratio(tp, tp + fn),
      accuracy |-> Ratio(Cardinality(Agreeing(bits, kws, gt)), Len(kws))]

\* lines 130-141
TestLoad ==
  /\ mode = "test" /\ pc = "start"
  /\ model' = disk
  /\ Log("load_from_disk")
  /\ Feed("load_from_disk", disk)
  /\ feature_matrices' = <<>> /\ kw_vector' = <<>> /\ answers' = <<>>
  /\ pc' = IF nDocs > 0 THEN "test_candidates" ELSE "test_concat"
  /\ UNCHANGED <<mode, verbose, nDocs, i, disk, kw_candidates, doc_answers, X,
                 output_vectors, y_predicted, y, kw_predicted, metrics, result,
                 raised>>

\* lines 142-148
TestCandidates ==
  /\ mode = "test" /\ pc = "test_candidates"
  /\ \E c \in generate_keyword_candidates : kw_candidates' = c
  /\ pc' = "test_preallocate"
  /\ UNCHANGED <<mode, verbose, nDocs, i, disk, model, doc_answers, answers, X,
                 feature_matrices, kw_vector, output_vectors, y_predicted, y,
                 kw_predicted, metrics, result, raised, calls, fed>>

\* line 151
TestPreallocate ==
  /\ mode = "test" /\ pc = "test_preallocate"
  /\ X' = preallocate_feature_matrix(Len(kw_candidates))
  /\ pc' = "test_keyword_features"
  /\ UNCHANGED <<mode, verbose, nDocs, i, disk, model, kw_candidates, doc_answers,
                 answers, feature_matrices, kw_vector, output_vectors, y_predicted, y,
                 kw_predicted, metrics, result, raised, calls, fed>>

\* lines 154-159
TestKeywordFeatures ==
  /\ mode = "test" /\ pc = "test_keyword_features"
  /\ X' = extract_keyword_features(kw_candidates, X, Doc, model)
  /\ Log("extract_keyword_features")
  /\ Feed("extract_keyword_features", model)
  /\ pc' = "test_document_features"
  /\ UNCHANGED <<mode, verbose, nDocs, i, disk, model, kw_candidates, doc_answers,
                 answers, feature_matrices, kw_vector, output_vectors, y_predicted, y,
                 kw_predicted, metrics, result, raised>>

\* line 162
TestDocumentFeatures ==
  /\ mode = "test" /\ pc = "test_document_features"
  /\ X' = extract_document_features(Doc, X)
  /\ pc' = "test_answers"
  /\ UNCHANGED <<mode, verbose, nDocs, i, disk, model, kw_candidates, doc_answers,
                 answers, feature_matrices, kw_vector, output_vectors, y_predicted, y,
                 kw_predicted, metrics, result, raised, calls, fed>>

\* line 167
TestAnswers ==
  /\ mode = "test" /\ pc = "test_answers"
  /\ \E a \in get_answers_for_doc : answers' = Put(answers, Doc, a)
  /\ pc' = "test_rebuild"
  /\ UNCHANGED <<mode, verbose, nDocs, i, disk, model, kw_candidates, doc_answers, X,
                 feature_matrices, kw_vector, output_vectors, y_predicted, y,
                 kw_predicted, metrics, result, raised, calls, fed>>

\* lines 169-170
TestRebuild ==
  /\ mode = "test" /\ pc = "test_rebuild"
  /\ X' = rebuild_feature_matrix(X)
  /\ feature_matrices' = Append(feature_matrices, X')
  /\ pc' = "test_extend"
  /\ UNCHANGED <<mode, verbose, nDocs, i, disk, model, kw_candidates, doc_answers,
                 answers, kw_vector, output_vectors, y_predicted, y,
                 kw_predicted, metrics, result, raised, calls, fed>>

\* variant of TestExtend: the pairs of a document are put in front of the list
TestExtendFront ==
  /\ mode = "test" /\ pc = "test_extend"
  /\ kw_vector' = [k \in 1..Len(kw_candidates) |-> <<Doc, kw_candidates[k]>>] \o kw_vector
  /\ i' = i + 1
  /\ pc' = IF i + 1 < nDocs THEN "test_candidates" ELSE "test_concat"
  /\ UNCHANGED <<mode, verbose, nDocs, disk, model, kw_candidates, doc_answers,
                 answers, X, feature_matrices, output_vectors, y_predicted, y,
                 kw_predicted, metrics, result, raised, calls, fed>>

\* lines 172-175, and the loop's next iteration
TestExtend ==
  /\ mode = "test" /\ pc = "test_extend"
  /\ kw_vector' = kw_vector \o [k \in 1..Len(kw_candidates) |-> <<Doc, kw_candidates[k]>>]
  /\ i' = i + 1
  /\ pc' = IF i + 1 < nDocs THEN "test_candidates" ELSE "test_concat"
  /\ UNCHANGED <<mode, verbose, nDocs, disk, model, kw_candidates, doc_answers,
                 answers, X, feature_matrices, output_vectors, y_predicted, y,
                 kw_predicted, metrics, result, raised, calls, fed>>

\* lines 178-184; pd.concat of an empty list raises ValueError
TestConcat ==
  /\ mode = "test" /\ pc = "test_concat"
  /\ IF feature_matrices = <<>>
     THEN /\ raised' = "ValueError" /\ pc' = "raised" /\ X' = X
     ELSE /\ X' = pd_concat(feature_matrices) /\ pc' = "test_predict" /\ raised' = raised
  /\ UNCHANGED <<mode, verbose, nDocs, i, disk, model, kw_candidates, doc_answers,
                 answers, feature_matrices, kw_vector, output_vectors, y_predicted, y,
                 kw_predicted, metrics, result, calls, fed>>

\* variant of TestPredict: the scaler is fit on the test matrix before predicting
TestPredictRefit ==
  /\ mode = "test" /\ pc = "test_predict"
  /\ model' = fit_and_scale_model(model, X)
  /\ y_predicted' = scale_and_predict(model', X)
  /\ calls' = calls \o <<"fit_and_scale", "scale_and_predict">>
  /\ fed' = [fed EXCEPT !.fit_and_scale = Append(@, X), !.scale_and_predict = Append(@, X)]
  /\ pc' = "test_filter"
  /\ UNCHANGED <<mode, verbose, nDocs, i, disk, kw_candidates, doc_answers,
                 answers, X, feature_matrices, kw_vector, output_vectors, y,
                 kw_predicted, metrics, result, raised>>

\* lines 187-190
TestPredict ==
  /\ mode = "test" /\ pc = "test_predict"
  /\ y_predicted' = scale_and_predict(model, X)
  /\ Log("scale_and_predict")
  /\ Feed("scale_and_predict", X)
  /\ pc' = "test_filter"
  /\ UNCHANGED <<mode, verbose, nDocs, i, disk, model, kw_candidates, doc_answers,
                 answers, X, feature_matrices, kw_vector, output_vectors, y,
                 kw_predicted, metrics, result, raised>>

\* lines 193-194
TestFilterAnswers ==
  /\ mode = "test" /\ pc = "test_filter"
  /\ answers' = [d \in DOMAIN answers |-> remove_unguessable_answers(answers[d], OntologyForms)]
  /\ pc' = "test_evaluate"
  /\ UNCHANGED <<mode, verbose, nDocs, i, disk, model, kw_candidates, doc_answers, X,
                 feature_matrices, kw_vector, output_vectors, y_predicted, y,
                 kw_predicted, metrics, result, raised, calls, fed>>

\* lines 197-201
TestEvaluate ==
  /\ mode = "test" /\ pc = "test_evaluate"
  /\ metrics' = evaluate_results(y_predicted, kw_vector, answers)
  /\ Log("evaluate_results")
  /\ pc' = "test_f1"
  /\ UNCHANGED <<mode, verbose, nDocs, i, disk, model, kw_candidates, doc_answers,
                 answers, X, feature_matrices, kw_vector, output_vectors, y_predicted, y,
                 kw_predicted, result, raised, fed>>

\* (2 * precision * recall) / (precision + recall) with / the true division:
\* a zero divisor raises ZeroDivisionError on Python floats and gives nan on
\* numpy floats; which of the two evaluate_results returns is not fixed here
F1Outcomes(p, r) ==
  IF IsZero(p) /\ IsZero(r)
  THEN {[raises |-> TRUE, value |-> NaN], [raises |-> FALSE, value |-> NaN]}
  ELSE {[raises |-> FALSE,
         value |-> Ratio(2 * p.num * r.num, p.num * r.den + r.num * p.den)]}

\* lines 203-204
TestReturn ==
  /\ mode = "test" /\ pc = "test_f1"
  /\ \E o \in F1Outcomes(metrics.precision, metrics.recall) :
       IF o.raises
       THEN /\ raised' = "ZeroDivisionError" /\ pc' = "raised" /\ result' = result
       ELSE /\ result' = [kind |-> "tuple",
                          value |-> <<metrics.precision, metrics.recall, o.value,
                                      metrics.accuracy>>]
            /\ pc' = "done" /\ raised' = raised
  /\ UNCHANGED <<mode, verbose, nDocs, i, disk, model, kw_candidates, doc_answers,
                 answers, X, feature_matrices, kw_vector, output_vectors, y_predicted, y,
                 kw_predicted, metrics, calls, fed>>

(* -------------------------------- train --------------------------------- *)
\* add_gt_answers_to_candidates_set(kw_candidates, doc_answers, ontology): the
\* lists kw_candidates can be afterwards; every answer of the ontology that no
\* candidate stands for is appended once, with the degenerate span
add_gt_answers_to_candidates_set(cands, gt, ontology) ==
  LET have == { get_canonical_form(cands[k]) : k \in DOMAIN cands }
      missing == (gt \cap ontology) \ have
  IN { cands \o [k \in 1..Cardinality(missing) |-> Candidate(o[k], 0)] : o \in Orders(missing) }

\* variant of OutputVector: the candidate object, not its canonical form, is
\* looked up in the answers, so nothing is ever found
OutputVectorByObject(cands, gt) == [k \in 1..Len(cands) |-> 0]

\* lines 273-278
OutputVector(cands, gt) ==
  [k \in 1..Len(cands) |-> IF get_canonical_form(cands[k]) \in gt THEN 1 ELSE 0]

\* lines 224-237
TrainSetup ==
  /\ mode = "train" /\ pc = "start"
  /\ model' = LearningModel(1..nDocs)
  /\ Log("LearningModel")
  /\ output_vectors' = <<>> /\ feature_matrices' = <<>>
  /\ pc' = IF nDocs > 0 THEN "train_candidates" ELSE "train_concat"
  /\ UNCHANGED <<mode, verbose, nDocs, i, disk, kw_candidates, doc_answers, answers, X,
                 kw_vector, y_predicted, y, kw_predicted, metrics, result, raised, fed>>

\* lines 238-242
TrainCandidates ==
  /\ mode = "train" /\ pc = "train_candidates"
  /\ \E c \in generate_keyword_candidates : kw_candidates' = c
  /\ pc' = "train_answers"
  /\ UNCHANGED <<mode, verbose, nDocs, i, disk, model, doc_answers, answers, X,
                 feature_matrices, kw_vector, output_vectors, y_predicted, y,
                 kw_predicted, metrics, result, raised, calls, fed>>

\* line 245
TrainAnswers ==
  /\ mode = "train" /\ pc = "train_answers"
  /\ \E a \in get_answers_for_doc : doc_answers' = a /\ answers' = Put(answers, Doc, a)
  /\ pc' = "train_augment"
  /\ UNCHANGED <<mode, verbose, nDocs, i, disk, model, kw_candidates, X,
                 feature_matrices, kw_vector, output_vectors, y_predicted, y,
                 kw_predicted, metrics, result, raised, calls, fed>>

\* variant of TrainAugment: the candidate list is left as generated
TrainAugmentSkipped ==
  /\ mode = "train" /\ pc = "train_augment"
  /\ pc' = "train_preallocate"
  /\ UNCHANGED <<mode, verbose, nDocs, i, disk, model, kw_candidates, doc_answers, answers,
                 X, feature_matrices, kw_vector, output_vectors, y_predicted, y,
                 kw_predicted, metrics, result, raised, calls, fed>>

\* line 248
TrainAugment ==
  /\ mode = "train" /\ pc = "train_augment"
  /\ kw_candidates' \in add_gt_answers_to_candidates_set(kw_candidates, doc_answers, OntologyForms)
  /\ pc' = "train_preallocate"
  /\ UNCHANGED <<mode, verbose, nDocs, i, disk, model, doc_answers, answers, X,
                 feature_matrices, kw_vector, output_vectors, y_predicted, y,
                 kw_predicted, metrics, result, raised, calls, fed>>

\* line 253
TrainPreallocate ==
  /\ mode = "train" /\ pc = "train_preallocate"
  /\ X' = preallocate_feature_matrix(Len(kw_candidates))
  /\ pc' = "train_keyword_features"
  /\ UNCHANGED <<mode, verbose, nDocs, i, disk, model, kw_candidates, doc_answers,
                 answers, feature_matrices, kw_vector, output_vectors, y_predicted, y,
                 kw_predicted, metrics, result, raised, calls, fed>>

\* variant of TrainKeywordFeatures: the statistics come from a model built from
\* the document at hand
TrainKeywordFeaturesOwnModel ==
  /\ mode = "train" /\ pc = "train_keyword_features"
  /\ X' = extract_keyword_features(kw_candidates, X, Doc, LearningModel({Doc}))
  /\ Log("extract_keyword_features")
  /\ Feed("extract_keyword_features", LearningModel({Doc}))
  /\ pc' = "train_document_features"
  /\ UNCHANGED <<mode, verbose, nDocs, i, disk, model, kw_candidates, doc_answers,
                 answers, feature_matrices, kw_vector, output_vectors, y_predicted, y,
                 kw_predicted, metrics, result, raised>>

\* lines 256-261
TrainKeywordFeatures ==
  /\ mode = "train" /\ pc = "train_keyword_features"
  /\ X' = extract_keyword_features(kw_candidates, X, Doc, model)
  /\ Log("extract_keyword_features")
  /\ Feed("extract_keyword_features", model)
  /\ pc' = "train_document_features"
  /\ UNCHANGED <<mode, verbose, nDocs, i, disk, model, kw_candidates, doc_answers,
                 answers, feature_matrices, kw_vector, output_vectors, y_predicted, y,
                 kw_predicted, metrics, result, raised>>

\* variant of TrainDocumentFeatures: training leaves the document features out
TrainDocumentFeaturesSkipped ==
  /\ mode = "train" /\ pc = "train_document_features"
  /\ pc' = "train_rebuild"
  /\ UNCHANGED <<mode, verbose, nDocs, i, disk, model, kw_candidates, doc_answers,
                 answers, X, feature_matrices, kw_vector, output_vectors, y_predicted, y,
                 kw_predicted, metrics, result, raised, calls, fed>>

\* line 264
TrainDocumentFeatures ==
  /\ mode = "train" /\ pc = "train_document_features"
  /\ X' = extract_document_features(Doc, X)
  /\ pc' = "train_rebuild"
  /\ UNCHANGED <<mode, verbose, nDocs, i, disk, model, kw_candidates, doc_answers,
                 answers, feature_matrices, kw_vector, output_vectors, y_predicted, y,
                 kw_predicted, metrics, result, raised, calls, fed>>

\* lines 266-269
TrainRebuild ==
  /\ mode = "train" /\ pc = "train_rebuild"
  /\ X' = rebuild_feature_matrix(X)
  /\ feature_matrices' = Append(feature_matrices, X')
  /\ pc' = "train_labels"
  /\ UNCHANGED <<mode, verbose, nDocs, i, disk, model, kw_candidates, doc_answers,
                 answers, kw_vector, output_vectors, y_predicted, y,
                 kw_predicted, metrics, result, raised, calls, fed>>

\* variant of TrainLabels: the scaler is fit on each document's matrix in the loop
TrainLabelsPartialFit ==
  /\ mode = "train" /\ pc = "train_labels"
  /\ output_vectors' = output_vectors \o OutputVector(kw_candidates, doc_answers)
  /\ model' = fit_and_scale_model(model, X)
  /\ Log("fit_and_scale")
  /\ Feed("fit_and_scale", X)
  /\ i' = i + 1
  /\ pc' = IF i + 1 < nDocs THEN "train_candidates" ELSE "train_concat"
  /\ UNCHANGED <<mode, verbose, nDocs, disk, kw_candidates, doc_answers,
                 answers, X, feature_matrices, kw_vector, y_predicted, y,
                 kw_predicted, metrics, result, raised>>

\* lines 273-284, and the loop's next iteration
TrainLabels ==
  /\ mode = "train" /\ pc = "train_labels"
  /\ output_vectors' = output_vectors \o OutputVector(kw_candidates, doc_answers)
  /\ i' = i + 1
  /\ pc' = IF i + 1 < nDocs THEN "train_candidates" ELSE "train_concat"
  /\ UNCHANGED <<mode, verbose, nDocs, disk, model, kw_candidates, doc_answers,
                 answers, X, feature_matrices, kw_vector, y_predicted, y,
                 kw_predicted, metrics, result, raised, calls, fed>>

\* lines 287-298; pd.concat of an empty list raises ValueError
TrainConcat ==
  /\ mode = "train" /\ pc = "train_concat"
  /\ IF feature_matrices = <<>>
     THEN /\ raised' = "ValueError" /\ pc' = "raised" /\ X' = X /\ y' = y
     ELSE /\ X' = pd_concat(feature_matrices) /\ y' = output_vectors
          /\ pc' = "train_fit_and_scale" /\ raised' = raised
  /\ UNCHANGED <<mode, verbose, nDocs, i, disk, model, kw_candidates, doc_answers,
                 answers, feature_matrices, kw_vector, output_vectors, y_predicted,
                 kw_predicted, metrics, result, calls, fed>>

\* line 301
TrainFitAndScale ==
  /\ mode = "train" /\ pc = "train_fit_and_scale"
  /\ model' = fit_and_scale_model(model, X)
  /\ X' = fit_and_scale_result(model, X)
  /\ Log("fit_and_scale")
  /\ Feed("fit_and_scale", X)
  /\ pc' = "train_fit_classifier"
  /\ UNCHANGED <<mode, verbose, nDocs, i, disk, kw_candidates, doc_answers,
                 answers, feature_matrices, kw_vector, output_vectors, y_predicted, y,
                 kw_predicted, metrics, result, raised>>

\* lines 304-307
TrainFitClassifier ==
  /\ mode = "train" /\ pc = "train_fit_classifier"
  /\ model' = fit_classifier(model, X, y)
  /\ Log("fit_classifier")
  /\ Feed("fit_classifier", [X |-> X, y |-> y])
  /\ pc' = "train_save"
  /\ UNCHANGED <<mode, verbose, nDocs, i, disk, kw_candidates, doc_answers,
                 answers, X, feature_matrices, kw_vector, output_vectors, y_predicted, y,
                 kw_predicted, metrics, result, raised>>

\* line 310
TrainSave ==
  /\ mode = "train" /\ pc = "train_save"
  /\ disk' = model
  /\ Log("save_to_disk")
  /\ result' = [kind |-> "None"]
  /\ pc' = "done"
  /\ UNCHANGED <<mode, verbose, nDocs, i, model, kw_candidates, doc_answers,
                 answers, X, feature_matrices, kw_vector, output_vectors, y_predicted, y,
                 kw_predicted, metrics, raised, fed>>

Next ==
  \/ TrainSetup \/ TrainCandidates \/ TrainAnswers \/ TrainAugment \/ TrainPreallocate
  \/ TrainKeywordFeatures \/ TrainDocumentFeatures \/ TrainRebuild \/ TrainLabels
  \/ TrainConcat \/ TrainFitAndScale \/ TrainFitClassifier \/ TrainSave
  \/ TestLoad \/ TestCandidates \/ TestPreallocate \/ TestKeywordFeatures
  \/ TestDocumentFeatures \/ TestAnswers \/ TestRebuild \/ TestExtend \/ TestConcat
  \/ TestPredict \/ TestFilterAnswers \/ TestEvaluate \/ TestReturn
  \/ ExtractLoad \/ ExtractCandidates \/ ExtractPreallocate \/ ExtractKeywordFeatures
  \/ ExtractDocumentFeatures \/ ExtractRebuild \/ ExtractPredict \/ ExtractCollect
  \/ ExtractVerbose \/ ExtractReturn

Spec == Init /\ [][Next]_vars

(* ----------------------------- properties ------------------------------ *)
\* the rows of a list of matrices, in list order
Rows(ms) == Flatten([k \in 1..Len(ms) |-> ms[k].rows])

\* how often x occurs in s
RECURSIVE Count(_, _)
Count(s, x) == IF s = <<>> THEN 0
               ELSE (IF Head(s) = x THEN 1 ELSE 0) + Count(Tail(s), x)

Project(s, S) == SelectSeq(s, LAMBDA c : c \in S)
IsPrefix(s, t) == Len(s) <= Len(t) /\ \A k \in 1..Len(s) : s[k] = t[k]

FitOps == {"fit_and_scale", "fit_classifier", "save_to_disk"}
TrainLoop == {"train_candidates", "train_answers", "train_augment", "train_preallocate",
              "train_keyword_features", "train_document_features", "train_rebuild",
              "train_labels"}
TestLoop == {"test_candidates", "test_preallocate", "test_keyword_features",
             "test_document_features", "test_answers", "test_rebuild", "test_extend"}
\* positions of train at which kw_candidates holds the augmented list of the
\* current document and X its matrix
TrainMatrixBuilt == {"train_keyword_features", "train_document_features", "train_rebuild",
                     "train_labels"}
\* positions at which the loop stands between two documents or has ended
TrainBetweenDocs == {"train_candidates", "train_concat", "train_fit_and_scale",
                     "train_fit_classifier", "train_save", "done"}
TestBetweenDocs == {"test_candidates", "test_concat", "test_predict", "test_filter",
                    "test_evaluate", "test_f1", "done", "raised"}

C2_ModelReadOnly ==
  (mode \in {"extract", "test"}) =>
    /\ \A k \in 1..Len(calls) :
         calls[k] \in {"load_from_disk", "extract_keyword_features", "scale_and_predict",
                       "evaluate_results"}
    /\ fed.fit_and_scale = <<>> /\ fed.fit_classifier = <<>>
    /\ Len(fed.load_from_disk) <= 1
    /\ fed.load_from_disk # <<>> =>
         /\ model = fed.load_from_disk[1]
         /\ disk = fed.load_from_disk[1]
         /\ model.scaler = 1 /\ model.clf = 1

\* a verbose test run over two documents that has returned
C2_Witness ==
  /\ mode = "test" /\ verbose /\ pc = "done" /\ nDocs = 2
  /\ Len(fed.extract_keyword_features) = 2
  /\ Len(fed.scale_and_predict) = 1
  /\ model = fed.load_from_disk[1]

LabelsMatch(labels, rows) ==
  /\ Len(labels) = Len(rows)
  /\ \A k \in 1..Len(rows) :
       /\ rows[k].doc \in DOMAIN answers
       /\ (labels[k] = 1) <=> (get_canonical_form(rows[k].kw) \in answers[rows[k].doc])
       /\ labels[k] \in {0, 1}
  /\ \A k \in 1..(Len(rows) - 1) : rows[k].doc <= rows[k + 1].doc

C4_LabelsMatchRows ==
  (mode = "train") =>
    /\ pc \in TrainBetweenDocs =>
         /\ LabelsMatch(output_vectors, Rows(feature_matrices))
         /\ Len(feature_matrices) = i
         /\ \A d \in 1..i : \A k \in 1..Len(feature_matrices[d].rows) :
              feature_matrices[d].rows[k].doc = d
         /\ i >= 1 => feature_matrices[i].rows =
                        [k \in 1..Len(kw_candidates) |->
                           [kw |-> kw_candidates[k], doc |-> i, dfeat |-> i]]
    /\ fed.fit_classifier # <<>> =>
         /\ fed.fit_classifier[1].y = output_vectors
         /\ fed.fit_classifier[1].X.rows = Rows(feature_matrices)
         /\ LabelsMatch(fed.fit_classifier[1].y, fed.fit_classifier[1].X.rows)

\* the classifier was fit on two documents, one row of an injected candidate
\* labelled 1 and one generated row labelled 0
C4_Witness ==
  /\ mode = "train" /\ fed.fit_classifier # <<>> /\ nDocs = 2
  /\ \E k, l \in 1..Len(fed.fit_classifier[1].y) :
       /\ fed.fit_classifier[1].X.rows[k].kw.pos = 0
       /\ fed.fit_classifier[1].y[k] = 1
       /\ fed.fit_classifier[1].X.rows[l].kw.pos > 0
       /\ fed.fit_classifier[1].y[l] = 0
       /\ fed.fit_classifier[1].X.rows[k].doc # fed.fit_classifier[1].X.rows[l].doc

\* C5: once the matrix of a training document exists, the candidate list is
\* the augmented one: every answer of the ontology that the generator did not
\* produce is there exactly once as an injected candidate, the matrix has one
\* row per candidate of the augmented list, and the labels of the document
\* give every injected candidate a 1.
Generated(cands) == { get_canonical_form(cands[k]) : k \in { j \in DOMAIN cands : cands[j].pos > 0 } }
Injected(cands, f) == { k \in DOMAIN cands : cands[k] = Candidate(f, 0) }

Augmented(cands, gt) ==
  /\ \A f \in gt \cap OntologyForms : \E k \in DOMAIN cands : get_canonical_form(cands[k]) = f
  /\ \A f \in (gt \cap OntologyForms) \ Generated(cands) : Cardinality(Injected(cands, f)) = 1
  /\ (Generated(cands) = {} /\ Cardinality(gt \cap OntologyForms) = 1) => Len(cands) = 1

C5_AugmentedBeforeMatrixAndLabels ==
  (mode = "train") =>
    /\ pc \in TrainMatrixBuilt =>
         /\ Augmented(kw_candidates, doc_answers)
         /\ Len(X.rows) = Len(kw_candidates)
    /\ (pc \in TrainBetweenDocs /\ i >= 1) =>
         /\ Augmented(kw_candidates, doc_answers)
         /\ Len(feature_matrices[i].rows) = Len(kw_candidates)
         /\ Len(output_vectors) >= Len(kw_candidates)
         /\ \A k \in 1..Len(kw_candidates) :
              kw_candidates[k].pos = 0 =>
                output_vectors[Len(output_vectors) - Len(kw_candidates) + k] = 1

\* the generator found nothing, the answers are {"b"}: one injected candidate,
\* one row, label 1
C5_Witness ==
  /\ mode = "train" /\ pc \in TrainBetweenDocs /\ i >= 1
  /\ doc_answers = {"b"}
  /\ kw_candidates = <<Candidate("b", 0)>>
  /\ Len(feature_matrices[i].rows) = 1
  /\ output_vectors[Len(output_vectors)] = 1

\* C6: every matrix that reaches the model went through preallocate,
\* keyword features, document features, rebuild, in this order, sized to the
\* candidate list, and has the schema's columns: the per-document matrices of
\* test and train, their concatenation handed to scale_and_predict or
\* fit_and_scale, and the matrix extract hands to scale_and_predict.
BuiltAsSpecified(m) == m.hist = PipelineSteps /\ m.cols = Schema

C6_SameStepsEverywhere ==
  /\ \A k \in 1..Len(feature_matrices) : BuiltAsSpecified(feature_matrices[k])
  /\ mode = "extract" =>
       \A k \in 1..Len(fed.scale_and_predict) :
         /\ BuiltAsSpecified(fed.scale_and_predict[k])
         /\ Len(fed.scale_and_predict[k].rows) = Len(kw_candidates)
  /\ mode = "test" =>
       \A k \in 1..Len(fed.scale_and_predict) :
         /\ fed.scale_and_predict[k].rows = Rows(feature_matrices)
         /\ fed.scale_and_predict[k].cols = Schema
  /\ mode = "train" =>
       \A k \in 1..Len(fed.fit_and_scale) :
         /\ fed.fit_and_scale[k].rows = Rows(feature_matrices)
         /\ fed.fit_and_scale[k].cols = Schema
  /\ pc \in {"extract_keyword_features", "test_keyword_features", "train_keyword_features"} =>
       (X.hist = <<"preallocate">> /\ Len(X.rows) = Len(kw_candidates))
  /\ pc \in {"extract_document_features", "test_document_features", "train_document_features"} =>
       /\ X.hist = <<"preallocate", "keyword_features">>
       /\ Len(X.rows) = Len(kw_candidates)
       /\ \A k \in 1..Len(X.rows) : X.rows[k].kw = kw_candidates[k]

\* train handed fit_and_scale the concatenation of two three-row matrices
C6_Witness ==
  /\ mode = "train" /\ fed.fit_and_scale # <<>>
  /\ Len(feature_matrices) = 2
  /\ Len(feature_matrices[1].rows) >= 1 /\ Len(feature_matrices[2].rows) >= 1
  /\ fed.fit_and_scale[1].cols = Schema

\* C7 (as claimed): a test run in which evaluate_results reports precision 0
\* and recall 0 returns the tuple and raises nothing.
C7_SparseTestReturns ==
  (mode = "test" /\ pc \in {"done", "raised"} /\ metrics.kind = "metrics"
     /\ IsZero(metrics.precision) /\ IsZero(metrics.recall)) =>
    (raised = "" /\ result.kind = "tuple")

\* C8: extract on a document without candidates builds a matrix without
\* rows, raises nothing and returns the empty set.
C8_NoCandidatesNoKeywords ==
  (mode = "extract" /\ kw_candidates = <<>>) =>
    /\ raised = "" /\ pc # "raised"
    /\ pc \notin {"start", "extract_candidates", "extract_preallocate"} => X.rows = <<>>
    /\ \A k \in 1..Len(fed.scale_and_predict) : fed.scale_and_predict[k].rows = <<>>
    /\ pc = "done" => (result = [kind |-> "keywords", value |-> {}] /\ y_predicted = <<>>)

\* extract returned for a document without candidates
C8_Witness ==
  /\ mode = "extract" /\ pc = "done" /\ kw_candidates = <<>>
  /\ Len(fed.scale_and_predict) = 1
  /\ result = [kind |-> "keywords", value |-> {}]

\* C9: every extract_keyword_features call of a run gets the same model: in
\* train the one constructed from the whole collection before the loop, not
\* yet fit; in test and extract the one loaded from disk.  No other model is
\* constructed.
C9_OneModelForAllDocuments ==
  /\ mode = "train" =>
       /\ \A k \in 1..Len(fed.extract_keyword_features) :
            fed.extract_keyword_features[k] = LearningModel(1..nDocs)
       /\ pc # "start" => (calls[1] = "LearningModel" /\ Count(calls, "LearningModel") = 1)
       /\ \A k \in 1..Len(feature_matrices) :
            feature_matrices[k].idf = [origin |-> "constructed", docs |-> 1..nDocs]
  /\ mode \in {"extract", "test"} =>
       /\ \A k \in 1..Len(fed.extract_keyword_features) :
            fed.extract_keyword_features[k] = fed.load_from_disk[1]
       /\ Count(calls, "LearningModel") = 0
       /\ \A k \in 1..Len(feature_matrices) :
            feature_matrices[k].idf = [origin |-> "persisted", docs |-> {}]
  /\ Len(fed.extract_keyword_features) = Count(calls, "extract_keyword_features")

\* train extracted the features of its second document
C9_Witness ==
  /\ mode = "train" /\ nDocs = 2
  /\ Len(fed.extract_keyword_features) = 2
  /\ Len(feature_matrices) = 2
  /\ Len(feature_matrices[2].rows) >= 1

====
